---- MODULE Spec2Model ----
(***************************************************************************)
(* A model of the master tree of IBoat-PMCTS (src/code/solver/master.py):  *)
(* MasterTree, MasterNode, and the aggregator loop MasterTree.update that  *)
(* drains the workers' buffers into the tree.                              *)
(*                                                                         *)
(* Hist (utils.py), the worker (worker.py) and ACTIONS / A_DICT            *)
(* (simulatorTLKT.py) are imported by master.py; they are modelled from    *)
(* the design document of the repository.                                  *)
(***************************************************************************)
EXTENDS Integers, Sequences, FiniteSets, TLC

(***************************************************************************)
(* Bounds of the model.                                                    *)
(***************************************************************************)
\* Number of node hashes other than the root's.
NumHashes == 2
\* Number of scenarios (len(sims)).
NumScenarios == 2
\* Updates handed to integrate_buffer over a whole run.
MaxUpdates == 3
\* Longest buffer handed to one integrate_buffer call.
MaxBufLen == 2
\* Calls of get_children over a whole run.
MaxGetChildren == 2
\* Updates appended by all the workers over a whole run.
MaxAppends == 3
\* Calls of get_children, get_depth and get_best_policy over a whole run.
MaxWalkCalls == 2

(***************************************************************************)
(* Values.                                                                 *)
(***************************************************************************)
\* hash(tuple([])), the key of the root node.
ROOT == 0
\* Python's None, for parentNode, arm, depth and idscenario.
NoneVal == -1

Hashes == 0..NumHashes
Scenarios == 0..(NumScenarios - 1)

\* simulatorTLKT.ACTIONS: the ordered action set.
ActionList == <<90, 180>>
ActionSet == {ActionList[j] : j \in 1..Len(ActionList)}
\* simulatorTLKT.A_DICT: action -> index in the action list.
A_DICT(action) == CHOOSE j \in 1..Len(ActionList) : ActionList[j] = action

\* Hist.THRESH: bucket k holds the rewards in [THRESH[k], THRESH[k+1]).
THRESH == <<1, 3, 5, 7, 9, 11>>
\* Hist.MEANS: the centre of each bucket.
MEANS == <<2, 4, 6, 8, 10>>
Buckets == 1..Len(MEANS)
\* The rewards the workers report.
Rewards == {5, 10}

(***************************************************************************)
(* Rationals, as <<numerator, denominator>> with a positive denominator.   *)
(***************************************************************************)
RatLess(p, q) == p[1] * q[2] < q[1] * p[2]
RatEq(p, q) == p[1] * q[2] = q[1] * p[2]
RatAdd(p, q) == <<p[1] * q[2] + q[1] * p[2], p[2] * q[2]>>

RECURSIVE SumTo(_, _)
SumTo(f, n) == IF n = 0 THEN 0 ELSE f[n] + SumTo(f, n - 1)

(***************************************************************************)
(* Hist: a count per bucket.                                               *)
(***************************************************************************)
Hist == [k \in Buckets |-> 0]

\* sum(hist.h)
HistTotal(h) == SumTo(h, Len(MEANS))

BucketOf(value) ==
    CHOOSE k \in Buckets : THRESH[k] <= value /\ value < THRESH[k + 1]

\* Hist.add
HistAdd(h, value) == [h EXCEPT ![BucketOf(value)] = @ + 1]

\* Hist.get_mean: the count-weighted average of the centres, 0 when empty.
get_mean(h) ==
    IF HistTotal(h) = 0 THEN <<0, 1>>
    ELSE <<SumTo([k \in Buckets |-> h[k] * MEANS[k]], Len(MEANS)), HistTotal(h)>>

\* Hist.is_empty
is_empty(h) == HistTotal(h) = 0

(***************************************************************************)
(* MasterNode.  A node is held under its hash; parentNode is the hash of   *)
(* the parent object (nodes are never replaced or removed, so a reference  *)
(* and a hash name the same node).                                         *)
(***************************************************************************)
MasterNode(parentNode, action) ==
    [arm        |-> action,
     parentNode |-> parentNode,
     rewards    |-> [s \in Scenarios |-> [j \in 1..Len(ActionList) |-> Hist]],
     children   |-> <<>>,
     depth      |-> NoneVal]

\* MasterNode.add_reward: the reward goes into every action of the scenario.
add_reward(nodes, h, idscenario, reward) ==
    [nodes EXCEPT ![h].rewards[idscenario] =
        [j \in 1..Len(ActionList) |-> HistAdd(@[j], reward)]]

\* MasterNode.add_reward_action
add_reward_action(nodes, h, idscenario, action, reward) ==
    [nodes EXCEPT ![h].rewards[idscenario][A_DICT(action)] = HistAdd(@, reward)]

\* backup as it would be if it stopped at the parent instead of walking to the root.
backup_parent_only(nodes, h, idscenario, reward) ==
    LET parent == nodes[h].parentNode
    IN  IF parent = NoneVal THEN [nodes |-> nodes, fault |-> "none"]
        ELSE IF nodes[h].arm \notin ActionSet THEN [nodes |-> nodes, fault |-> "KeyError"]
        ELSE [nodes |-> add_reward_action(nodes, parent, idscenario, nodes[h].arm, reward),
              fault |-> "none"]

\* MasterNode.backup: [nodes, fault]; A_DICT[self.arm] raises KeyError for an
\* arm that is no action, and what the ancestors below got stays.
RECURSIVE backup(_, _, _, _)
backup(nodes, h, idscenario, reward) ==
    LET parent == nodes[h].parentNode
    IN  IF parent = NoneVal THEN [nodes |-> nodes, fault |-> "none"]
        ELSE IF nodes[h].arm \notin ActionSet THEN [nodes |-> nodes, fault |-> "KeyError"]
        ELSE backup(add_reward_action(nodes, parent, idscenario, nodes[h].arm, reward),
                    parent, idscenario, reward)

(***************************************************************************)
(* MasterTree.  t is [nodes, order, fault, done]: the dict of nodes, its   *)
(* insertion order, the exception raised ("none" when none was) and the    *)
(* number of updates of the buffer that were integrated.                   *)
(***************************************************************************)
\* The updates of well-formed actions: any hash may be named as child or parent.
ValidUpdate == [scenarioId : Scenarios, newNodeHash : Hashes, parentHash : Hashes,
                action : ActionSet, reward : Rewards]

\* The same, and those whose action (45) is no action of the simulator.
Update == [scenarioId : Scenarios, newNodeHash : Hashes, parentHash : Hashes,
           action : ActionSet \cup {45}, reward : Rewards]

\* MasterTree.__init__
NewTree ==
    [nodes |-> (ROOT :> MasterNode(NoneVal, NoneVal)),
     order |-> <<ROOT>>,
     fault |-> "none",
     done  |-> 0]

\* Whether the loop body creates the node: self.nodes.get(newNodeHash, 0) == 0.
Unseen(nodes, update) == update.newNodeHash \notin DOMAIN nodes

\* Whether the body raises at self.nodes[parentHash], read only to create a node.
Orphan(nodes, update) ==
    Unseen(nodes, update) /\ update.parentHash \notin DOMAIN nodes

\* The iteration as it would be if the parent were looked up with a default
\* (self.nodes.get(parentHash)): an orphan becomes a node without a parent.
IntegrateUpdate_get_parent(t, update) ==
    LET created == Unseen(t.nodes, update)
        parent == IF update.parentHash \in DOMAIN t.nodes THEN update.parentHash
                  ELSE NoneVal
        nodes1 == IF created
                  THEN t.nodes @@ (update.newNodeHash :> MasterNode(parent, update.action))
                  ELSE t.nodes
        order1 == IF created THEN Append(t.order, update.newNodeHash) ELSE t.order
        nodes2 == add_reward(nodes1, update.newNodeHash, update.scenarioId, update.reward)
        b == backup(nodes2, update.newNodeHash, update.scenarioId, update.reward)
    IN  [nodes |-> b.nodes, order |-> order1, fault |-> b.fault,
         done |-> IF b.fault = "none" THEN t.done + 1 ELSE t.done]

\* The iteration as it would be if the action of the update were stored in a
\* node that exists already.
IntegrateUpdate_rearm(t, update) ==
    IF Orphan(t.nodes, update) THEN [t EXCEPT !.fault = "KeyError"]
    ELSE
      LET created == Unseen(t.nodes, update)
          nodes1 == IF created
                    THEN t.nodes @@ (update.newNodeHash :>
                                       MasterNode(update.parentHash, update.action))
                    ELSE IF update.newNodeHash = ROOT THEN t.nodes
                    ELSE [t.nodes EXCEPT ![update.newNodeHash].arm = update.action]
          order1 == IF created THEN Append(t.order, update.newNodeHash) ELSE t.order
          nodes2 == add_reward(nodes1, update.newNodeHash, update.scenarioId, update.reward)
          b == backup(nodes2, update.newNodeHash, update.scenarioId, update.reward)
      IN  [nodes |-> b.nodes, order |-> order1, fault |-> b.fault,
           done |-> IF b.fault = "none" THEN t.done + 1 ELSE t.done]

\* The iteration as it would be if the histograms of a node that exists already
\* were emptied before its reward is added.
IntegrateUpdate_fresh_table(t, update) ==
    IF Orphan(t.nodes, update) THEN [t EXCEPT !.fault = "KeyError"]
    ELSE
      LET created == Unseen(t.nodes, update)
          nodes1 == IF created
                    THEN t.nodes @@ (update.newNodeHash :>
                                       MasterNode(update.parentHash, update.action))
                    ELSE [t.nodes EXCEPT ![update.newNodeHash].rewards =
                            [s \in Scenarios |-> [j \in 1..Len(ActionList) |-> Hist]]]
          order1 == IF created THEN Append(t.order, update.newNodeHash) ELSE t.order
          nodes2 == add_reward(nodes1, update.newNodeHash, update.scenarioId, update.reward)
          b == backup(nodes2, update.newNodeHash, update.scenarioId, update.reward)
      IN  [nodes |-> b.nodes, order |-> order1, fault |-> b.fault,
           done |-> IF b.fault = "none" THEN t.done + 1 ELSE t.done]

\* One iteration of the loop of integrate_buffer.
IntegrateUpdate(t, update) ==
    IF Orphan(t.nodes, update) THEN [t EXCEPT !.fault = "KeyError"]
    ELSE
      LET created == Unseen(t.nodes, update)
          nodes1 == IF created
                    THEN t.nodes @@ (update.newNodeHash :>
                                       MasterNode(update.parentHash, update.action))
                    ELSE t.nodes
          order1 == IF created THEN Append(t.order, update.newNodeHash) ELSE t.order
          nodes2 == add_reward(nodes1, update.newNodeHash, update.scenarioId, update.reward)
          b == backup(nodes2, update.newNodeHash, update.scenarioId, update.reward)
      IN  [nodes |-> b.nodes, order |-> order1, fault |-> b.fault,
           done |-> IF b.fault = "none" THEN t.done + 1 ELSE t.done]

\* MasterTree.integrate_buffer: the updates in order, up to the first that raises.
RECURSIVE integrate_buffer(_, _)
integrate_buffer(t, buffer) ==
    IF buffer = <<>> THEN t
    ELSE LET t1 == IntegrateUpdate(t, Head(buffer))
         IN  IF t1.fault # "none" THEN t1 ELSE integrate_buffer(t1, Tail(buffer))

\* self.probability: 1 / num_scenarios for each scenario.
probability == [s \in Scenarios |-> <<1, NumScenarios>>]

RatMul(p, q) == <<p[1] * q[1], p[2] * q[2]>>

\* np.dot(temp, self.probability), temp a function on the scenarios.
RECURSIVE DotUpTo(_, _)
DotUpTo(temp, n) ==
    IF n = 0 THEN <<0, 1>>
    ELSE RatAdd(DotUpTo(temp, n - 1), RatMul(temp[n - 1], probability[n - 1]))

\* The largest of f[1..n], starting from `start` and replaced on a strict >.
RECURSIVE MaxFrom(_, _, _)
MaxFrom(f, n, start) ==
    IF n = 0 THEN start
    ELSE LET m == MaxFrom(f, n - 1, start)
         IN  IF RatLess(m, f[n]) THEN f[n] ELSE m

(***************************************************************************)
(* get_uct.  The score is kept as its per-scenario terms: a term is 0      *)
(* (guarded) or exploit + UCT_COEFF * (2 * log(num_parent) / num_node)     *)
(* ** 0.5, kept as its operands.                                           *)
(***************************************************************************)
NoTerms == [s \in Scenarios |-> [zero |-> TRUE, num_parent |-> 0, num_node |-> 0,
                                 exploit |-> <<0, 1>>]]

\* num_parent: the counts of every action of the parent for scenario s.
NumParent(nodes, h, s) ==
    SumTo([j \in 1..Len(ActionList) |->
             HistTotal(nodes[nodes[h].parentNode].rewards[s][j])], Len(ActionList))

\* num_node: the count of the parent's histogram for the node's arm.
NumNode(nodes, h, s) ==
    HistTotal(nodes[nodes[h].parentNode].rewards[s][A_DICT(nodes[h].arm)])

\* The guard as it would be if only the parent's count were tested.
UctGuard_parent_only(num_parent, num_node) == num_parent = 0

\* The guard of get_uct: the scenario contributes 0.
UctGuard(num_parent, num_node) == (num_parent = 0) \/ (num_node = 0)

\* uct_max_on_actions: starts at 0, replaced by a strictly larger mean.
UctMaxOnActions(nodes, h, s) ==
    MaxFrom([j \in 1..Len(ActionList) |-> get_mean(nodes[h].rewards[s][j])],
            Len(ActionList), <<0, 1>>)

\* One scenario's entry of uct_per_scenario.
UctTerm(nodes, h, s) ==
    LET num_parent == NumParent(nodes, h, s)
        num_node == NumNode(nodes, h, s)
    IN  IF UctGuard(num_parent, num_node)
        THEN [zero |-> TRUE, num_parent |-> num_parent, num_node |-> num_node,
              exploit |-> <<0, 1>>]
        ELSE [zero |-> FALSE, num_parent |-> num_parent, num_node |-> num_node,
              exploit |-> UctMaxOnActions(nodes, h, s)]

\* get_uct as it would be if the node were looked up with self.nodes[node_hash].
get_uct_index(nodes, node_hash) ==
    IF node_hash \notin DOMAIN nodes
    THEN [fault |-> "KeyError", absent |-> TRUE, terms |-> NoTerms]
    ELSE IF nodes[node_hash].parentNode = NoneVal /\ NumScenarios > 0
    THEN [fault |-> "AttributeError", absent |-> FALSE, terms |-> NoTerms]
    ELSE IF nodes[node_hash].arm \notin ActionSet /\ NumScenarios > 0
    THEN [fault |-> "KeyError", absent |-> FALSE, terms |-> NoTerms]
    ELSE [fault |-> "none", absent |-> FALSE,
          terms |-> [s \in Scenarios |-> UctTerm(nodes, node_hash, s)]]

\* MasterTree.get_uct, for the local node whose action sequence hashes to node_hash:
\* absent is the early return 0, terms is uct_per_scenario.
get_uct(nodes, node_hash) ==
    IF node_hash \notin DOMAIN nodes
    THEN [fault |-> "none", absent |-> TRUE, terms |-> NoTerms]
    ELSE IF nodes[node_hash].parentNode = NoneVal /\ NumScenarios > 0
    THEN [fault |-> "AttributeError", absent |-> FALSE, terms |-> NoTerms]
    ELSE IF nodes[node_hash].arm \notin ActionSet /\ NumScenarios > 0
    THEN [fault |-> "KeyError", absent |-> FALSE, terms |-> NoTerms]
    ELSE [fault |-> "none", absent |-> FALSE,
          terms |-> [s \in Scenarios |-> UctTerm(nodes, node_hash, s)]]

(***************************************************************************)
(* get_children, get_best_child.                                           *)
(***************************************************************************)
\* The loop of get_children as it would be if a node already in the list of its
\* parent were not appended again.
RECURSIVE AppendChildren_once(_, _)
AppendChildren_once(nodes, keys) ==
    IF keys = <<>> THEN nodes
    ELSE LET h == Head(keys)
             list == nodes[nodes[h].parentNode].children
         IN  AppendChildren_once(
                 IF \E k \in 1..Len(list) : list[k] = h THEN nodes
                 ELSE [nodes EXCEPT ![nodes[h].parentNode].children = Append(@, h)],
                 Tail(keys))

\* The loop of get_children: node.parentNode.children.append(node).
RECURSIVE AppendChildren(_, _)
AppendChildren(nodes, keys) ==
    IF keys = <<>> THEN nodes
    ELSE LET h == Head(keys)
         IN  AppendChildren([nodes EXCEPT ![nodes[h].parentNode].children = Append(@, h)],
                            Tail(keys))

\* MasterTree.get_children: every node but the root, in the dict's order.
get_children(nodes, order) ==
    AppendChildren(nodes, SelectSeq(order, LAMBDA h : h # ROOT))

\* reward_per_action[j] as it would be if idscenario were never looked at.
RewardPerAction_all_scenarios(nodes, child, j, idscenario) ==
    DotUpTo([i \in Scenarios |-> get_mean(nodes[child].rewards[i][j])], NumScenarios)

\* reward_per_action[j] of get_best_child.
RewardPerAction(nodes, child, j, idscenario) ==
    IF idscenario = NoneVal
    THEN DotUpTo([i \in Scenarios |-> get_mean(nodes[child].rewards[i][j])], NumScenarios)
    ELSE get_mean(nodes[child].rewards[idscenario][j])

\* np.max(reward_per_action)
CandidateReward(nodes, child, idscenario) ==
    LET r == [j \in 1..Len(ActionList) |-> RewardPerAction(nodes, child, j, idscenario)]
    IN  MaxFrom(r, Len(ActionList) - 1, r[Len(ActionList)])

\* The test as it would be with >= in place of >.
Better_or_equal(reward, best_reward) == ~RatLess(reward, best_reward)

\* Whether the loop of get_best_child replaces the best child.
Better(reward, best_reward) == RatLess(best_reward, reward)

RECURSIVE BestChildLoop(_, _, _, _)
BestChildLoop(nodes, children, idscenario, best) ==
    IF children = <<>> THEN best
    ELSE LET child == Head(children)
             reward == CandidateReward(nodes, child, idscenario)
             best1 == IF Better(reward, best.best_reward)
                      THEN [best_reward |-> reward, best_child |-> child,
                            best_action |-> nodes[child].arm]
                      ELSE best
         IN  BestChildLoop(nodes, Tail(children), idscenario, best1)

\* get_best_child as it would be if best_reward started at 0 in place of -1.
get_best_child_from_zero(nodes, node, idscenario) ==
    BestChildLoop(nodes, nodes[node].children, idscenario,
                  [best_reward |-> <<0, 1>>, best_child |-> NoneVal,
                   best_action |-> NoneVal])

\* MasterTree.get_best_child
get_best_child(nodes, node, idscenario) ==
    BestChildLoop(nodes, nodes[node].children, idscenario,
                  [best_reward |-> <<-1, 1>>, best_child |-> NoneVal,
                   best_action |-> NoneVal])

(***************************************************************************)
(* get_depth, get_best_policy.  t is the MasterTree: [nodes, order,        *)
(* max_depth, best_global_policy, best_global_nodes_policy, best_policy,   *)
(* best_nodes_policy]; a policy is a list of actions, a nodes policy the   *)
(* list of the hashes of the nodes walked.                                 *)
(***************************************************************************)
\* n.depth = node.depth + 1 as it would be without the + 1.
ChildDepth_same(depth) == depth

\* n.depth = node.depth + 1
ChildDepth(depth) == depth + 1

\* The while loop of get_depth; list_nodes is the queue.
RECURSIVE DepthLoop(_, _)
DepthLoop(nodes, list_nodes) ==
    IF list_nodes = <<>> THEN nodes
    ELSE LET node == Head(list_nodes)
             children == nodes[node].children
             d == ChildDepth(nodes[node].depth)
             nodes1 == [h \in DOMAIN nodes |->
                          IF \E k \in 1..Len(children) : children[k] = h
                          THEN [nodes[h] EXCEPT !.depth = d]
                          ELSE nodes[h]]
         IN  DepthLoop(nodes1, Tail(list_nodes) \o children)

\* max() of a list of integers.
MaxOf(f) == CHOOSE d \in {f[k] : k \in DOMAIN f} : \A k \in DOMAIN f : f[k] <= d

\* MasterTree.get_depth: [nodes, max_depth, fault].  max() over the depths of
\* the dict, the root's first, raises TypeError when it compares a None.
get_depth(nodes, order, maxDepth) ==
    LET nodes1 == DepthLoop([nodes EXCEPT ![ROOT].depth = 0], <<ROOT>>)
        depths == [k \in 1..Len(order) |-> nodes1[order[k]].depth]
    IN  IF \E k \in 2..Len(order) : depths[k] = NoneVal
        THEN [nodes |-> nodes1, max_depth |-> maxDepth, fault |-> "TypeError"]
        ELSE [nodes |-> nodes1, max_depth |-> MaxOf(depths), fault |-> "none"]

\* nodes_policy.append(child) as it would be if it appended node.
NextPolicyNode_parent(node, child) == node

\* What the walk appends to nodes_policy: nodes_policy.append(child).
NextPolicyNode(node, child) == child

\* The while loop of a walk of get_best_policy, at node; w is [nodes_policy,
\* policy, fault].  node.children raises AttributeError on None.
RECURSIVE PolicyWalk(_, _, _, _)
PolicyWalk(nodes, idscenario, node, w) ==
    IF node = NoneVal THEN [w EXCEPT !.fault = "AttributeError"]
    ELSE IF nodes[node].children = <<>> THEN w
    ELSE LET r == get_best_child(nodes, node, idscenario)
         IN  PolicyWalk(nodes, idscenario, r.best_child,
                        [nodes_policy |-> Append(w.nodes_policy,
                                                 NextPolicyNode(node, r.best_child)),
                         policy |-> Append(w.policy, r.best_action),
                         fault |-> "none"])

\* A walk from the root.
WalkFromRoot(nodes, idscenario) ==
    PolicyWalk(nodes, idscenario, ROOT,
               [nodes_policy |-> <<ROOT>>, policy |-> <<>>, fault |-> "none"])

\* The for loop of get_best_policy over the scenario ids, from id_scenario on.
RECURSIVE ScenarioWalks(_, _)
ScenarioWalks(t, id_scenario) ==
    IF id_scenario >= NumScenarios THEN t
    ELSE LET w == WalkFromRoot(t.nodes, id_scenario)
         IN  IF w.fault # "none" THEN [t EXCEPT !.fault = w.fault]
             ELSE ScenarioWalks(
                    [t EXCEPT !.best_policy = (id_scenario :> w.policy) @@ @,
                              !.best_nodes_policy = (id_scenario :> w.nodes_policy) @@ @],
                    id_scenario + 1)

\* MasterTree.get_best_policy: the tree, with fault, ranChildren and ranDepth
\* (whether get_children and get_depth were called).
get_best_policy(t) ==
    LET ranChildren == t.nodes[ROOT].children = <<>>
        nodes1 == IF ranChildren THEN get_children(t.nodes, t.order) ELSE t.nodes
        ranDepth == nodes1[ROOT].depth = NoneVal
        d == IF ranDepth THEN get_depth(nodes1, t.order, t.max_depth)
             ELSE [nodes |-> nodes1, max_depth |-> t.max_depth, fault |-> "none"]
        t1 == [nodes |-> d.nodes, order |-> t.order, max_depth |-> d.max_depth,
               best_global_policy |-> t.best_global_policy,
               best_global_nodes_policy |-> t.best_global_nodes_policy,
               best_policy |-> t.best_policy,
               best_nodes_policy |-> t.best_nodes_policy,
               fault |-> d.fault, ranChildren |-> ranChildren, ranDepth |-> ranDepth]
        g == WalkFromRoot(d.nodes, NoneVal)
    IN  IF d.fault # "none" THEN t1
        ELSE IF g.fault # "none" THEN [t1 EXCEPT !.fault = g.fault]
        ELSE ScenarioWalks([t1 EXCEPT !.best_global_policy = g.policy,
                                      !.best_global_nodes_policy = g.nodes_policy], 0)

(***************************************************************************)
(* The workers, one per scenario: worker w searches scenario w.  A local   *)
(* node is an action sequence; its hash names the node, the hash of the    *)
(* sequence without its last action names the parent, and the last action  *)
(* is the arm.  Here hash h > 0 is the sequence of h actions ActionList[1]. *)
(***************************************************************************)
Workers == Scenarios

WorkerUpdate(w) ==
    {[scenarioId |-> w, newNodeHash |-> h, parentHash |-> h - 1,
      action |-> ActionList[1], reward |-> r] : h \in 1..NumHashes, r \in Rewards}

\* Worker.copy_buffer: a copy of the list.
copy_buffer(buf) == buf

\* Worker.reset_buffer: an empty list.
reset_buffer(buf) == <<>>

(***************************************************************************)
(* The state: the tree, what the last call returned, the workers and the   *)
(* aggregator loop, and the history the properties speak of.               *)
(***************************************************************************)
VARIABLES
    nodes,      \* self.nodes: hash -> MasterNode
    order,      \* the insertion order of self.nodes
    ret,        \* the last call of a tree method: its name, arguments and outcome
    buffer,     \* worker_dict[w]'s buffer: a list of updates, each with its history id
    ready,      \* event_dict[w].isSet()
    finished,   \* finish_event_dict[w].isSet()
    pending,    \* worker w has appended since it last raised its ready signal
    pc,         \* where MasterTree.update stands
    idx,        \* the worker the loop of update is at
    copied,     \* the local variable buffer of update
    sent,       \* history: integrated updates per (childHash, scenario)
    nUpd,       \* history: updates handed to integrate_buffer by direct calls
    nGetCh,     \* history: calls of get_children
    nApp,       \* history: updates appended by the workers (the last id given)
    integ,      \* history: how many times the update of each id was integrated
    max_depth,                  \* self.max_depth
    best_global_policy,         \* self.best_global_policy
    best_global_nodes_policy,   \* self.best_global_nodes_policy
    best_policy,                \* self.best_policy: scenario id -> actions
    best_nodes_policy,          \* self.best_nodes_policy: scenario id -> nodes
    nDepth,     \* history: direct calls of get_depth
    nPol,       \* history: calls of get_best_policy
    nPasses,    \* history: runs of get_children, direct or inside get_best_policy
    passKeys,   \* history: the keys of the node set at the first run of get_children
    pool,       \* the updates integrated so far, in the order of their integration
    nodesB,     \* a second tree, built from the updates of pool in another order
    orderB,     \* the insertion order of nodesB
    permB       \* the places in pool of the updates nodesB has integrated, in order

treeVars == <<nodes, order>>
callVars == <<ret, sent, nUpd, nGetCh>>
aggVars == <<buffer, ready, finished, pending, pc, idx, copied, nApp, integ>>
policyVars == <<max_depth, best_global_policy, best_global_nodes_policy,
                best_policy, best_nodes_policy>>
walkVars == <<nDepth, nPol, nPasses, passKeys>>
orderVars == <<pool, nodesB, orderB, permB>>
laterVars == <<policyVars, walkVars, orderVars>>
vars == <<nodes, order, ret, buffer, ready, finished, pending, pc, idx, copied,
          sent, nUpd, nGetCh, nApp, integ, max_depth, best_global_policy,
          best_global_nodes_policy, best_policy, best_nodes_policy,
          nDepth, nPol, nPasses, passKeys, pool, nodesB, orderB, permB>>

NoRet ==
    [op |-> "init", arg |-> NoneVal, idscenario |-> NoneVal, fault |-> "none",
     unknownParent |-> FALSE, absent |-> FALSE, terms |-> NoTerms,
     best_child |-> NoneVal, best_action |-> NoneVal,
     fresh |-> FALSE, ranDepth |-> FALSE, ignored |-> FALSE]

\* History: whether some update that integrate_buffer processes (the raising one
\* included) names a parentHash that is no key of the node set when processed.
RECURSIVE UnknownParentProcessed(_, _)
UnknownParentProcessed(t, buf) ==
    IF buf = <<>> THEN FALSE
    ELSE \/ Head(buf).parentHash \notin DOMAIN t.nodes
         \/ LET t1 == IntegrateUpdate(t, Head(buf))
            IN  t1.fault = "none" /\ UnknownParentProcessed(t1, Tail(buf))

\* History: sent, with the first n updates of the buffer counted.
RECURSIVE CountSent(_, _, _)
CountSent(cnt, buf, n) ==
    IF n = 0 THEN cnt
    ELSE LET u == buf[n]
         IN  CountSent([cnt EXCEPT ![u.newNodeHash][u.scenarioId] = @ + 1], buf, n - 1)

Init ==
    /\ nodes = NewTree.nodes
    /\ order = NewTree.order
    /\ ret = NoRet
    /\ buffer = [w \in Workers |-> <<>>]
    /\ ready = [w \in Workers |-> FALSE]
    /\ finished = [w \in Workers |-> FALSE]
    /\ pending = [w \in Workers |-> FALSE]
    /\ pc = "test"
    /\ idx = 0
    /\ copied = <<>>
    /\ sent = [h \in Hashes |-> [s \in Scenarios |-> 0]]
    /\ nUpd = 0
    /\ nGetCh = 0
    /\ nApp = 0
    /\ integ = <<>>
    /\ max_depth = NoneVal
    /\ best_global_policy = <<>>
    /\ best_global_nodes_policy = <<>>
    /\ best_policy = <<>>
    /\ best_nodes_policy = <<>>
    /\ nDepth = 0
    /\ nPol = 0
    /\ nPasses = 0
    /\ passKeys = {}
    /\ pool = <<>>
    /\ nodesB = NewTree.nodes
    /\ orderB = NewTree.order
    /\ permB = <<>>

(***************************************************************************)
(* Direct calls of the tree's methods by one caller: a call is taken when  *)
(* the last one has returned.                                              *)
(***************************************************************************)
\* The caller takes the outcome of the last call.
Return ==
    /\ ret # NoRet
    /\ ret' = NoRet
    /\ UNCHANGED <<laterVars, treeVars, aggVars, sent, nUpd, nGetCh>>

\* History: whether some update that integrate_buffer processes names a node of
\* the tree with a parentHash or an action that are not the node's.
RECURSIVE NamesNodeOtherwise(_, _)
NamesNodeOtherwise(t, buf) ==
    IF buf = <<>> THEN FALSE
    ELSE LET u == Head(buf)
             t1 == IntegrateUpdate(t, u)
         IN  \/ /\ u.newNodeHash \in DOMAIN t.nodes
                /\ \/ t.nodes[u.newNodeHash].parentNode # u.parentHash
                   \/ t.nodes[u.newNodeHash].arm # u.action
             \/ t1.fault = "none" /\ NamesNodeOtherwise(t1, Tail(buf))

\* A call of integrate_buffer with a buffer of at most maxLen updates of the set U.
IntegrateBuffers(U, maxLen) ==
    /\ ret = NoRet
    /\ \E k \in 1..maxLen :
         /\ nUpd + k <= MaxUpdates
         /\ \E buf \in [1..k -> U] :
              LET t0 == [nodes |-> nodes, order |-> order, fault |-> "none", done |-> 0]
                  t == integrate_buffer(t0, buf)
              IN  /\ nodes' = t.nodes
                  /\ order' = t.order
                  /\ sent' = CountSent(sent, buf, t.done)
                  /\ ret' = [NoRet EXCEPT !.op = "integrate_buffer", !.fault = t.fault,
                               !.unknownParent = UnknownParentProcessed(t0, buf),
                               !.ignored = NamesNodeOtherwise(t0, buf)]
                  /\ nUpd' = nUpd + k
    /\ UNCHANGED <<laterVars, aggVars, nGetCh>>

IntegrateBufferOf(U) == IntegrateBuffers(U, MaxBufLen)

IntegrateBuffer == IntegrateBufferOf(Update)

IntegrateValid == IntegrateBufferOf(ValidUpdate)

\* The well-formed updates of one reward.
SingleRewardUpdate ==
    {u \in ValidUpdate : \A r \in Rewards : u.reward <= r}

\* A call of integrate_buffer with a buffer of one update.
IntegrateSingle == IntegrateBuffers(SingleRewardUpdate, 1)

\* The calls of get_children, get_depth and get_best_policy so far.
WalkCalls == nGetCh + nDepth + nPol

\* A call of get_uct by a worker.
GetUct ==
    /\ ret = NoRet
    /\ \E node_hash \in Hashes :
         LET r == get_uct(nodes, node_hash)
         IN  ret' = [NoRet EXCEPT !.op = "get_uct", !.arg = node_hash,
                       !.fault = r.fault, !.absent = r.absent, !.terms = r.terms]
    /\ UNCHANGED <<laterVars, treeVars, aggVars, sent, nUpd, nGetCh>>

\* A call of get_children.
GetChildren ==
    /\ ret = NoRet
    /\ nGetCh < MaxGetChildren
    /\ WalkCalls < MaxWalkCalls
    /\ nodes' = get_children(nodes, order)
    /\ nGetCh' = nGetCh + 1
    /\ ret' = [NoRet EXCEPT !.op = "get_children"]
    /\ nPasses' = nPasses + 1
    /\ passKeys' = IF nPasses = 0 THEN DOMAIN nodes ELSE passKeys
    /\ UNCHANGED <<policyVars, orderVars, nDepth, nPol, order, aggVars, sent, nUpd>>

\* A call of get_best_child.
GetBestChild ==
    /\ ret = NoRet
    /\ \E node \in DOMAIN nodes, idscenario \in Scenarios \cup {NoneVal} :
         LET r == get_best_child(nodes, node, idscenario)
         IN  ret' = [NoRet EXCEPT !.op = "get_best_child", !.arg = node,
                       !.idscenario = idscenario, !.best_child = r.best_child,
                       !.best_action = r.best_action]
    /\ UNCHANGED <<laterVars, treeVars, aggVars, sent, nUpd, nGetCh>>

\* A call of get_depth.
GetDepth ==
    /\ ret = NoRet
    /\ WalkCalls < MaxWalkCalls
    /\ LET r == get_depth(nodes, order, max_depth)
       IN  /\ nodes' = r.nodes
           /\ max_depth' = r.max_depth
           /\ ret' = [NoRet EXCEPT !.op = "get_depth", !.fault = r.fault,
                        !.ranDepth = TRUE]
    /\ nDepth' = nDepth + 1
    /\ UNCHANGED <<order, aggVars, orderVars, sent, nUpd, nGetCh, nPol, nPasses, passKeys,
                   best_global_policy, best_global_nodes_policy, best_policy,
                   best_nodes_policy>>

\* The tree is as __init__ and integrate_buffer leave it: no children list and
\* no depth was ever computed.
Fresh(tree) == \A h \in DOMAIN tree : tree[h].children = <<>> /\ tree[h].depth = NoneVal

\* A call of get_best_policy.
GetBestPolicy ==
    /\ ret = NoRet
    /\ WalkCalls < MaxWalkCalls
    /\ LET t == get_best_policy(
                  [nodes |-> nodes, order |-> order, max_depth |-> max_depth,
                   best_global_policy |-> best_global_policy,
                   best_global_nodes_policy |-> best_global_nodes_policy,
                   best_policy |-> best_policy,
                   best_nodes_policy |-> best_nodes_policy])
       IN  /\ nodes' = t.nodes
           /\ max_depth' = t.max_depth
           /\ best_global_policy' = t.best_global_policy
           /\ best_global_nodes_policy' = t.best_global_nodes_policy
           /\ best_policy' = t.best_policy
           /\ best_nodes_policy' = t.best_nodes_policy
           /\ nPasses' = IF t.ranChildren THEN nPasses + 1 ELSE nPasses
           /\ passKeys' = IF t.ranChildren /\ nPasses = 0 THEN DOMAIN nodes ELSE passKeys
           /\ ret' = [NoRet EXCEPT !.op = "get_best_policy", !.fault = t.fault,
                        !.fresh = Fresh(nodes), !.ranDepth = t.ranDepth]
    /\ nPol' = nPol + 1
    /\ UNCHANGED <<order, aggVars, orderVars, sent, nUpd, nGetCh, nDepth>>

\* Integration and scoring.
Next == Return \/ IntegrateBuffer \/ GetUct

Spec == Init /\ [][Next]_vars

\* Integration and the extraction of the best child.
NextPolicy == Return \/ IntegrateValid \/ GetChildren \/ GetBestChild

SpecPolicy == Init /\ [][NextPolicy]_vars

\* Integration, scoring, and the passes and walks of the policy extraction.
NextWalk ==
    Return \/ IntegrateSingle \/ GetUct \/ GetChildren \/ GetDepth \/ GetBestPolicy

SpecWalk == Init /\ [][NextWalk]_vars

(***************************************************************************)
(* Two trees fed the same updates: nodes takes them in the order of pool,  *)
(* nodesB in an order of its own; both in buffers of any split.             *)
(***************************************************************************)
\* The well-formed updates a worker can send: the child is not the root and is
\* not its own parent.
WellFormedUpdate ==
    {u \in ValidUpdate : u.newNodeHash # ROOT /\ u.parentHash # u.newNodeHash}

\* A call of integrate_buffer on the first tree that completes; its updates
\* join pool.
OrderIntegrate ==
    /\ \E k \in 1..MaxBufLen :
         /\ Len(pool) + k <= MaxUpdates
         /\ \E buf \in [1..k -> WellFormedUpdate] :
              LET t == integrate_buffer(
                         [nodes |-> nodes, order |-> order, fault |-> "none", done |-> 0],
                         buf)
              IN  /\ t.fault = "none"
                  /\ nodes' = t.nodes
                  /\ order' = t.order
                  /\ pool' = pool \o buf
    /\ UNCHANGED <<callVars, aggVars, policyVars, walkVars, nodesB, orderB, permB>>

\* A call of integrate_buffer on the second tree that completes, with a buffer
\* of updates of pool it has not integrated yet, in any order.
OrderIntegrateB ==
    /\ \E k \in 1..MaxBufLen :
         \E places \in [1..k -> 1..Len(pool)] :
            /\ \A i \in 1..k : \A j \in 1..Len(permB) : places[i] # permB[j]
            /\ \A i, j \in 1..k : i # j => places[i] # places[j]
            /\ LET buf == [i \in 1..k |-> pool[places[i]]]
                   t == integrate_buffer(
                          [nodes |-> nodesB, order |-> orderB, fault |-> "none", done |-> 0],
                          buf)
               IN  /\ t.fault = "none"
                   /\ nodesB' = t.nodes
                   /\ orderB' = t.order
                   /\ permB' = permB \o places
    /\ UNCHANGED <<treeVars, callVars, aggVars, policyVars, walkVars, pool>>

NextOrder == OrderIntegrate \/ OrderIntegrateB

SpecOrder == Init /\ [][NextOrder]_vars

(***************************************************************************)
(* The workers and the aggregator loop MasterTree.update, each step one    *)
(* call or test of the loop; the workers run between any two of them.      *)
(***************************************************************************)
\* A worker appends an update to its buffer.
WorkerAppend(w) ==
    /\ ~finished[w]
    /\ nApp < MaxAppends
    /\ \E u \in WorkerUpdate(w) :
         buffer' = [buffer EXCEPT ![w] = Append(@, [id |-> nApp + 1, update |-> u])]
    /\ pending' = [pending EXCEPT ![w] = TRUE]
    /\ nApp' = nApp + 1
    /\ integ' = Append(integ, 0)
    /\ UNCHANGED <<laterVars, treeVars, callVars, ready, finished, pc, idx, copied>>

\* A worker raises its ready signal for what it appended.
WorkerReady(w) ==
    /\ ~finished[w]
    /\ pending[w]
    /\ ready' = [ready EXCEPT ![w] = TRUE]
    /\ pending' = [pending EXCEPT ![w] = FALSE]
    /\ UNCHANGED <<laterVars, treeVars, callVars, buffer, finished, pc, idx, copied, nApp, integ>>

\* A worker ends its search and raises its finished signal.
WorkerFinish(w) ==
    /\ ~finished[w]
    /\ finished' = [finished EXCEPT ![w] = TRUE]
    /\ UNCHANGED <<laterVars, treeVars, callVars, buffer, ready, pending, pc, idx, copied, nApp, integ>>

\* The loop goes on to the next worker, or to the test of the finished signals.
AfterWorker(w) ==
    IF w + 1 < NumScenarios THEN [pc |-> "test", idx |-> w + 1]
    ELSE [pc |-> "check", idx |-> 0]

\* if event.isSet():
AggTest ==
    /\ pc = "test"
    /\ IF ready[idx] THEN pc' = "copy" /\ idx' = idx
       ELSE pc' = AfterWorker(idx).pc /\ idx' = AfterWorker(idx).idx
    /\ UNCHANGED <<laterVars, treeVars, callVars, buffer, ready, finished, pending, copied, nApp, integ>>

\* buffer = worker_dict[i].copy_buffer()
AggCopy ==
    /\ pc = "copy"
    /\ copied' = copy_buffer(buffer[idx])
    /\ pc' = "reset"
    /\ UNCHANGED <<laterVars, treeVars, callVars, buffer, ready, finished, pending, idx, nApp, integ>>

\* worker_dict[i].reset_buffer()
AggReset ==
    /\ pc = "reset"
    /\ buffer' = [buffer EXCEPT ![idx] = reset_buffer(@)]
    /\ pc' = "clear"
    /\ UNCHANGED <<laterVars, treeVars, callVars, ready, finished, pending, idx, copied, nApp, integ>>

\* event.clear()
AggClear ==
    /\ pc = "clear"
    /\ ready' = [ready EXCEPT ![idx] = FALSE]
    /\ pc' = "integrate"
    /\ UNCHANGED <<laterVars, treeVars, callVars, buffer, finished, pending, idx, copied, nApp, integ>>

\* self.integrate_buffer(buffer); an exception ends update.
AggIntegrate ==
    /\ pc = "integrate"
    /\ LET buf == [k \in 1..Len(copied) |-> copied[k].update]
           t0 == [nodes |-> nodes, order |-> order, fault |-> "none", done |-> 0]
           t == integrate_buffer(t0, buf)
       IN  /\ nodes' = t.nodes
           /\ order' = t.order
           /\ sent' = CountSent(sent, buf, t.done)
           /\ integ' = [n \in 1..Len(integ) |->
                          IF \E k \in 1..t.done : copied[k].id = n
                          THEN integ[n] + 1 ELSE integ[n]]
           /\ IF t.fault # "none" THEN pc' = "fault" /\ idx' = idx
              ELSE pc' = AfterWorker(idx).pc /\ idx' = AfterWorker(idx).idx
    /\ copied' = <<>>
    /\ UNCHANGED <<laterVars, ret, nUpd, nGetCh, buffer, ready, finished, pending, nApp>>

\* The test as it would be on the event itself, which is always true, in place
\* of event.isSet().
AllGoesOn_event_object(w) == TRUE

\* The test as it would be if it were negated (not event.isSet()).
AllGoesOn_negated(w) == ~finished[w]

\* Whether all() goes on after finish event w: it stops at the first unset event.
AllGoesOn(w) == finished[w]

\* if all(event.isSet() for event in finish_event_dict.values()): stop = True
AggCheck ==
    /\ pc = "check"
    /\ IF ~AllGoesOn(idx) THEN pc' = "test" /\ idx' = 0
       ELSE IF idx + 1 < NumScenarios THEN pc' = "check" /\ idx' = idx + 1
       ELSE pc' = "done" /\ idx' = 0
    /\ UNCHANGED <<laterVars, treeVars, callVars, buffer, ready, finished, pending, copied, nApp, integ>>

Aggregator == AggTest \/ AggCopy \/ AggReset \/ AggClear \/ AggIntegrate \/ AggCheck

Worker == \E w \in Workers : WorkerAppend(w) \/ WorkerReady(w) \/ WorkerFinish(w)

NextAgg == Aggregator \/ Worker

SpecAgg == Init /\ [][NextAgg]_vars

\* The places of the loop of update.
LoopPlaces == {"test", "copy", "reset", "clear", "integrate", "check", "done", "fault"}

\* update moves on: every step of Aggregator changes <<pc, idx>>, no step of a
\* worker does, and one is possible wherever update has not returned or raised.
AggregatorMoves ==
    /\ pc \notin {"done", "fault"}
    /\ pc' \in LoopPlaces
    /\ idx' \in Workers

\* The workers and update, a thread that keeps running: the loop polls without
\* blocking.
SpecAggFair == SpecAgg /\ WF_<<pc, idx>>(AggregatorMoves)

(***************************************************************************)
(* Properties.                                                             *)
(***************************************************************************)
Keys == DOMAIN nodes

\* The place of key h in the insertion order of the dict.
IndexOf(seq, h) == CHOOSE k \in 1..Len(seq) : seq[k] = h

\* The child of n on the path from n down to d, NoneVal when d is not below n.
RECURSIVE ChildOnPath(_, _, _)
ChildOnPath(n, d, fuel) ==
    IF fuel = 0 \/ d \notin Keys THEN NoneVal
    ELSE IF nodes[d].parentNode = NoneVal THEN NoneVal
    ELSE IF nodes[d].parentNode = n THEN d
    ELSE ChildOnPath(n, nodes[d].parentNode, fuel - 1)

\* The integrated updates of scenario s for the proper descendants of n that
\* lie below a child of n with arm a.
SentBelow(n, s, a) ==
    SumTo([k \in 1..(NumHashes + 1) |->
             LET d == k - 1
                 c == ChildOnPath(n, d, NumHashes + 1)
             IN  IF d \in Keys /\ c # NoneVal /\ nodes[c].arm = a
                 THEN sent[d][s] ELSE 0],
          NumHashes + 1)

\* Every arm of the tree is an action of the simulator.
ArmsAreActions == \A h \in Keys \ {ROOT} : nodes[h].arm \in ActionSet

\* C1: while every arm is an action, the (s, a) histogram of every node n
\* counts the integrated updates of scenario s that name n, plus those that
\* name a proper descendant of n below a child of n with arm a.
C1_CountsAreUpdates ==
    ArmsAreActions =>
        \A n \in Keys, s \in Scenarios, a \in ActionSet :
            HistTotal(nodes[n].rewards[s][A_DICT(a)]) = sent[n][s] + SentBelow(n, s, a)

\* The tree after [(0,H1,ROOT,90,10)] and then [(0,H1,ROOT,90,10),(0,H2,H1,90,5)]:
\* 2 nodes besides the root, 3 counts in the root's (0, 90) histogram.
C1_Witness ==
    /\ order = <<ROOT, 1, 2>>
    /\ nodes[1].parentNode = ROOT /\ nodes[1].arm = 90
    /\ nodes[2].parentNode = 1 /\ nodes[2].arm = 90
    /\ sent = [h \in Hashes |-> [s \in Scenarios |->
                 IF s # 0 THEN 0 ELSE IF h = 1 THEN 2 ELSE IF h = 2 THEN 1 ELSE 0]]
    /\ nodes[1].rewards[0][A_DICT(90)][BucketOf(10)] = 2
    /\ nodes[2].rewards[0][A_DICT(90)][BucketOf(5)] = 1
    /\ Cardinality(Keys \ {ROOT}) = 2
    /\ HistTotal(nodes[ROOT].rewards[0][A_DICT(90)]) = 3
    /\ nodes[ROOT].rewards[0][A_DICT(90)][BucketOf(10)] = 2
    /\ nodes[ROOT].rewards[0][A_DICT(90)][BucketOf(5)] = 1

\* C4: a call of integrate_buffer that processes an update whose parentHash is
\* no key of the node set raises, whether the childHash is new or not.
C4_UnknownParentRaises ==
    (ret.op = "integrate_buffer" /\ ret.unknownParent) => ret.fault # "none"

\* Following the parent references from h reaches the root within fuel steps.
RECURSIVE ReachesRoot(_, _)
ReachesRoot(h, fuel) ==
    \/ h = ROOT
    \/ /\ fuel > 0
       /\ h \in Keys
       /\ nodes[h].parentNode \in Keys
       /\ ReachesRoot(nodes[h].parentNode, fuel - 1)

\* C5: the root is a node; the parent of every other node is a node that was
\* created earlier; the parent references lead from every node to the root.
C5_Connected ==
    /\ ROOT \in Keys
    /\ nodes[ROOT].parentNode = NoneVal
    /\ Keys = {order[k] : k \in 1..Len(order)}
    /\ Len(order) = Cardinality(Keys)
    /\ \A h \in Keys \ {ROOT} :
         /\ nodes[h].parentNode \in Keys
         /\ IndexOf(order, nodes[h].parentNode) < IndexOf(order, h)
         /\ ReachesRoot(h, Cardinality(Keys))

\* A call that raised on an orphan, in a tree that already holds a node whose
\* arm is no action under another node.
C5_Witness ==
    /\ ret.op = "integrate_buffer"
    /\ ret.fault = "KeyError"
    /\ ret.unknownParent
    /\ \E h \in Keys \ {ROOT} : nodes[h].arm \notin ActionSet /\ nodes[h].parentNode # ROOT

\* The value of a term of uct_per_scenario is 0: the term is the guarded 0, or
\* its mean is 0 and its exploration is 0, which log(num_parent) = 0 alone gives.
ContributesZero(term) ==
    term.zero \/ (term.exploit[1] = 0 /\ term.num_parent = 1)

\* The value get_uct returned is 0.
ReturnsZero(r) ==
    r.fault = "none" /\ (r.absent \/ \A s \in Scenarios : ContributesZero(r.terms[s]))

\* C6: get_uct for a hash that is no key of the node set returns 0, raises
\* nothing and leaves the node set and every histogram as they were.
C6_AbsentScoresZero ==
    [][(ret'.op = "get_uct" /\ ret'.arg \notin DOMAIN nodes)
         => (ReturnsZero(ret') /\ nodes' = nodes /\ order' = order)]_vars

\* get_uct has returned for a hash that is no key, in a tree of several nodes.
C6_Witness ==
    /\ ret.op = "get_uct"
    /\ ret.arg \notin Keys
    /\ Cardinality(Keys) > 1
    /\ ReturnsZero(ret)

\* The counts get_uct reads for node n and scenario s: all the actions of the
\* parent, and the parent's histogram of n's arm.
ParentCount(n, s) ==
    SumTo([j \in 1..Len(ActionList) |->
             HistTotal(nodes[nodes[n].parentNode].rewards[s][j])], Len(ActionList))

ArmCount(n, s) ==
    HistTotal(nodes[nodes[n].parentNode].rewards[s][A_DICT(nodes[n].arm)])

\* get_uct has returned a score for a node of the tree other than the root.
ScoredNode == ret.op = "get_uct" /\ ret.fault = "none" /\ ~ret.absent

\* For a scored node and every scenario: a zero parent count or a zero arm count
\* makes the term the guarded 0, and the exploration is only evaluated on
\* counts that are both positive.
UctIsGuarded ==
    ScoredNode =>
        \A s \in Scenarios :
            /\ (ParentCount(ret.arg, s) = 0 \/ ArmCount(ret.arg, s) = 0) => ret.terms[s].zero
            /\ ~ret.terms[s].zero =>
                 /\ ret.terms[s].num_parent = ParentCount(ret.arg, s)
                 /\ ret.terms[s].num_node = ArmCount(ret.arg, s)
                 /\ ret.terms[s].num_parent > 0
                 /\ ret.terms[s].num_node > 0

\* Scenario s integrated no update for node n or for a descendant of n.
NoUpdateAtOrBelow(n, s) ==
    /\ sent[n][s] = 0
    /\ \A d \in Keys : ChildOnPath(n, d, NumHashes + 1) # NoneVal => sent[d][s] = 0

\* The integrations so far were of updates a worker sends: every arm is an
\* action and no update named the root as its child.
ValidIntegrations == ArmsAreActions /\ \A s \in Scenarios : sent[ROOT][s] = 0

\* C7 as stated: the guard holds, and a scenario that integrated no update for
\* the node or its descendants contributes 0.
C7_ZeroForUnseenScenario ==
    /\ UctIsGuarded
    /\ (ScoredNode /\ ValidIntegrations) =>
         \A s \in Scenarios :
             NoUpdateAtOrBelow(ret.arg, s) => ContributesZero(ret.terms[s])

\* C7, amended: the guard holds, and a scenario contributes 0 when it integrated
\* no update for the node's parent nor for any node below a child of the parent
\* that has the node's arm (the node itself is one).
C7_ZeroForUnseenArm ==
    /\ UctIsGuarded
    /\ (ScoredNode /\ ArmsAreActions) =>
         \A s \in Scenarios :
             LET parent == nodes[ret.arg].parentNode
             IN  (sent[parent][s] = 0 /\ SentBelow(parent, s, nodes[ret.arg].arm) = 0)
                    => ret.terms[s].zero

\* A node scored with one scenario whose exploration was evaluated and another
\* guarded by a zero arm count under a positive parent count.
C7_Witness ==
    /\ ScoredNode
    /\ ArmsAreActions
    /\ \E s1, s2 \in Scenarios :
         /\ ~ret.terms[s1].zero
         /\ ret.terms[s2].zero
         /\ ParentCount(ret.arg, s2) > 0
         /\ ArmCount(ret.arg, s2) = 0

\* A term of uct_per_scenario is a number that is not negative.
TermIsNonNegative(term) ==
    term.zero \/ (/\ term.num_parent >= 1
                  /\ term.num_node >= 1
                  /\ term.exploit[1] >= 0
                  /\ term.exploit[2] > 0)

\* C8: get_uct raises nothing and returns a finite number >= 0, for an absent
\* node, for the root and for any other node.
C8_UctFiniteNonNegative ==
    ret.op = "get_uct" =>
        /\ ret.fault = "none"
        /\ \A s \in Scenarios : TermIsNonNegative(ret.terms[s])

\* The candidate reward of a child as the claim words it: the largest, over the
\* actions, of the probability-weighted mean of the scenarios' means (no
\* scenario given) or of the scenario's mean.
MeanOver(c, j, scen) ==
    IF scen = NoneVal
    THEN DotUpTo([s \in Scenarios |-> get_mean(nodes[c].rewards[s][j])], NumScenarios)
    ELSE get_mean(nodes[c].rewards[scen][j])

ClaimedReward(c, scen) ==
    LET J == 1..Len(ActionList)
        best == CHOOSE j \in J : \A k \in J : ~RatLess(MeanOver(c, j, scen), MeanOver(c, k, scen))
    IN  MeanOver(c, best, scen)

\* get_best_child has returned for a node that has children.
ChoseChild == ret.op = "get_best_child" /\ nodes[ret.arg].children # <<>>

\* C9: for a node with children, get_best_child returns a child of the list
\* whose candidate reward no other child of the list exceeds, with its arm.
C9_BestChildMaximises ==
    ChoseChild =>
        LET children == nodes[ret.arg].children
        IN  /\ \E k \in 1..Len(children) : children[k] = ret.best_child
            /\ \A k \in 1..Len(children) :
                 ~RatLess(ClaimedReward(ret.best_child, ret.idscenario),
                          ClaimedReward(children[k], ret.idscenario))
            /\ ret.best_action = nodes[ret.best_child].arm

\* The root has a child of arm 90 and a child of arm 180; asked without a
\* scenario get_best_child returned arm 90, and for scenario 1 it returns 180.
C9_Witness ==
    /\ ChoseChild
    /\ ret.arg = ROOT
    /\ ret.idscenario = NoneVal
    /\ Len(nodes[ROOT].children) = 2
    /\ ret.best_action = 90
    /\ get_best_child(nodes, ROOT, 1).best_action = 180
    /\ nodes[get_best_child(nodes, ROOT, 1).best_child].arm = 180

\* C10: get_best_child returns the first child of the list among those of
\* maximal candidate reward.
C10_FirstOfTheBest ==
    ChoseChild =>
        LET children == nodes[ret.arg].children
            IsBest(k) == \A m \in 1..Len(children) :
                            ~RatLess(ClaimedReward(children[k], ret.idscenario),
                                     ClaimedReward(children[m], ret.idscenario))
            first == CHOOSE k \in 1..Len(children) :
                        IsBest(k) /\ \A m \in 1..(k - 1) : ~IsBest(m)
        IN  ret.best_child = children[first]

\* Two different children tie for the best reward, the later-created node is
\* the first of the list, and it was returned.
C10_Witness ==
    /\ ChoseChild
    /\ LET children == nodes[ret.arg].children
       IN  /\ Len(children) >= 2
           /\ children[1] # children[2]
           /\ RatEq(ClaimedReward(children[1], ret.idscenario),
                    ClaimedReward(children[2], ret.idscenario))
           /\ \A k \in 1..Len(children) :
                ~RatLess(ClaimedReward(children[1], ret.idscenario),
                         ClaimedReward(children[k], ret.idscenario))
           /\ RatLess(<<0, 1>>, ClaimedReward(children[1], ret.idscenario))
           /\ ret.best_child = children[1]

\* The update of history id n is in a worker's buffer.
InBuffer(n) == \E w \in Workers : \E k \in 1..Len(buffer[w]) : buffer[w][k].id = n

\* The update of history id n is in the batch the aggregator copied.
InCopied(n) == \E k \in 1..Len(copied) : copied[k].id = n

\* C2: no appended update is integrated twice, and while integrate_buffer has
\* not raised every appended update is integrated, or in its worker's buffer,
\* or in the copied batch that is about to be integrated.
C2_ExactlyOnce ==
    \A n \in 1..nApp :
        /\ integ[n] <= 1
        /\ pc # "fault" => (integ[n] = 1 \/ InBuffer(n) \/ InCopied(n))

\* C3: when update has returned every finished signal is set, and no step of
\* update changes a finished signal.
C3_StopsWhenAllFinished ==
    /\ [](pc = "done" => \A w \in Workers : finished[w])
    /\ [][Aggregator => finished' = finished]_vars

\* update has returned after it integrated an update.
C3_Witness ==
    /\ pc = "done"
    /\ \A w \in Workers : finished[w]
    /\ \E n \in 1..nApp : integ[n] = 1

\* get_best_child has returned.
BestChildReturned == ret.op = "get_best_child"

\* C11: get_best_child returns (None, None) exactly when the children list of
\* the node is empty; otherwise it returns a member of the list and its arm.
C11_NullPairIffChildless ==
    BestChildReturned =>
        LET children == nodes[ret.arg].children
        IN  /\ (ret.best_child = NoneVal /\ ret.best_action = NoneVal) <=> (children = <<>>)
            /\ (ret.best_child = NoneVal \/ ret.best_action = NoneVal) => (children = <<>>)
            /\ children # <<>> =>
                 /\ \E k \in 1..Len(children) : children[k] = ret.best_child
                 /\ ret.best_action = nodes[ret.best_child].arm

\* get_best_child has returned a child for a scenario in which no child of the
\* node has any reward, so that every candidate reward is 0, while another node
\* of the same tree has an empty list, for which it returns the null pair.
C11_Witness ==
    /\ BestChildReturned
    /\ ret.idscenario # NoneVal
    /\ nodes[ret.arg].children # <<>>
    /\ \A k \in 1..Len(nodes[ret.arg].children) :
         RatEq(ClaimedReward(nodes[ret.arg].children[k], ret.idscenario), <<0, 1>>)
    /\ ret.best_child = nodes[ret.arg].children[1]
    /\ \E n \in Keys : /\ nodes[n].children = <<>>
                       /\ get_best_child(nodes, n, ret.idscenario).best_child = NoneVal
                       /\ get_best_child(nodes, n, ret.idscenario).best_action = NoneVal

\* get_best_policy has returned.
PolicyReturned == ret.op = "get_best_policy"

\* nodes_policy and policy are a path from the root to a node without a child
\* in the tree, with the arms of the nodes after the root as its actions.
IsRootToTerminal(nodes_policy, policy) ==
    /\ Len(nodes_policy) = Len(policy) + 1
    /\ nodes_policy[1] = ROOT
    /\ \A i \in 1..Len(policy) :
         /\ nodes_policy[i + 1] \in Keys
         /\ nodes[nodes_policy[i + 1]].parentNode = nodes_policy[i]
         /\ policy[i] = nodes[nodes_policy[i + 1]].arm
    /\ ~\E h \in Keys : nodes[h].parentNode = nodes_policy[Len(nodes_policy)]

\* C12: get_best_policy called on a tree as valid integrations built it (no
\* children list or depth computed before) completes, and the global policy and
\* the policy of every scenario id are paths from the root to a childless node.
C12_PoliciesAreRootToTerminal ==
    (PolicyReturned /\ ret.fresh) =>
        /\ ret.fault = "none"
        /\ IsRootToTerminal(best_global_nodes_policy, best_global_policy)
        /\ DOMAIN best_policy = Scenarios
        /\ DOMAIN best_nodes_policy = Scenarios
        /\ \A s \in Scenarios : IsRootToTerminal(best_nodes_policy[s], best_policy[s])

\* get_best_policy has returned on such a tree whose root has two children, and
\* the policies of scenarios 0 and 1 end in different nodes.
C12_Witness ==
    /\ PolicyReturned /\ ret.fresh /\ ret.fault = "none"
    /\ Len(best_global_policy) >= 1
    /\ Cardinality({h \in Keys : nodes[h].parentNode = ROOT}) = 2
    /\ best_nodes_policy[0] # best_nodes_policy[1]

\* How many times x is in the list.
CountIn(list, x) == Cardinality({k \in 1..Len(list) : list[k] = x})

\* The children list of every node holds the nodes whose parent it is, once each.
ChildrenExact ==
    \A n \in Keys, h \in Keys :
        CountIn(nodes[n].children, h) =
            IF h # ROOT /\ nodes[h].parentNode = n THEN 1 ELSE 0

\* C13: when get_best_policy has walked, with no call of get_children or
\* get_depth made by anyone else, the children lists it walked on hold for every
\* node exactly the nodes whose parent it is, once each.
C13_WalksOnExactLists ==
    (PolicyReturned /\ ret.fault = "none" /\ nGetCh = 0 /\ nDepth = 0) => ChildrenExact

\* The depths of the tree: 0 at the root, one more than the parent's elsewhere.
DepthsRight ==
    /\ nodes[ROOT].depth = 0
    /\ \A h \in Keys \ {ROOT} :
         /\ nodes[h].depth # NoneVal
         /\ nodes[h].depth = nodes[nodes[h].parentNode].depth + 1

\* max_depth is the largest depth of a node.
MaxDepthRight ==
    /\ \E h \in Keys : nodes[h].depth = max_depth
    /\ \A h \in Keys : nodes[h].depth <= max_depth

\* The call that has returned ran the depth pass and it completed.
DepthPassCompleted == ret.ranDepth /\ ret.fault = "none"

\* Every node but the root is in the children list of its parent.
AllListed ==
    \A h \in Keys \ {ROOT} : CountIn(nodes[nodes[h].parentNode].children, h) >= 1

\* C14 as stated: after the depth pass the depths and max_depth are right, and
\* get_depth called after integrate_buffer and get_children calls never raises.
C14_DepthPassNeverRaises ==
    /\ DepthPassCompleted => (DepthsRight /\ MaxDepthRight)
    /\ (ret.op = "get_depth" /\ nPol = 0) => ret.fault = "none"

\* C14, amended: after a depth pass that completed the depths and max_depth are
\* right, and get_depth completes exactly when every node but the root is in
\* the children list of its parent; otherwise it raises at max().
C14_DepthPassWhenListed ==
    /\ DepthPassCompleted => (DepthsRight /\ MaxDepthRight)
    /\ ret.op = "get_depth" => ((ret.fault = "none") <=> AllListed)
    /\ (ret.op = "get_depth" /\ ret.fault # "none") => ret.fault = "TypeError"

\* get_depth has completed on a chain of two nodes below the root.
C14_Witness ==
    /\ ret.op = "get_depth"
    /\ DepthPassCompleted
    /\ max_depth = 2
    /\ \E h \in Keys : nodes[h].depth = 2 /\ nodes[nodes[h].parentNode].depth = 1

\* C16: no step removes a node or changes the parent or the arm of a node; a
\* key enters the dict once, after those it holds; no bucket count decreases.
C16_LifecycleMonotone ==
    [][/\ DOMAIN nodes \subseteq DOMAIN nodes'
       /\ Len(order') >= Len(order)
       /\ SubSeq(order', 1, Len(order)) = order
       /\ Len(order') = Cardinality(DOMAIN nodes')
       /\ \A h \in DOMAIN nodes :
            /\ nodes'[h].parentNode = nodes[h].parentNode
            /\ nodes'[h].arm = nodes[h].arm
            /\ \A s \in Scenarios, j \in 1..Len(ActionList), k \in Buckets :
                 nodes'[h].rewards[s][j][k] >= nodes[h].rewards[s][j][k]]_vars

\* integrate_buffer has completed for an update that names a node of the tree
\* with another parentHash or action, after get_best_policy had run.
C16_Witness ==
    /\ ret.op = "integrate_buffer"
    /\ ret.fault = "none"
    /\ ret.ignored
    /\ nPol >= 1
    /\ Cardinality(Keys) > 1

\* C17: after k >= 1 runs of get_children on a node set that has not changed
\* since the first (which found every list empty), every node but the root is
\* k times in the children list of its parent and in no other list.
C17_ChildrenTimesCalls ==
    (nPasses >= 1 /\ Keys = passKeys) =>
        \A m \in Keys :
            /\ CountIn(nodes[m].children, ROOT) = 0
            /\ \A n \in Keys \ {ROOT} :
                 CountIn(nodes[m].children, n) =
                     IF nodes[n].parentNode = m THEN nPasses ELSE 0

\* get_children has run twice on the same node set of three nodes.
C17_Witness ==
    /\ ret.op = "get_children"
    /\ nPasses = 2
    /\ Keys = passKeys
    /\ Cardinality(Keys) = 3
    /\ \E n \in Keys \ {ROOT} : CountIn(nodes[nodes[n].parentNode].children, n) = 2

\* The second tree has integrated every update of pool.
BothIntegratedAll == Len(permB) = Len(pool)

\* The two trees have the same nodes, with the same parent, arm and counts.
SameTree ==
    /\ DOMAIN nodes = DOMAIN nodesB
    /\ \A h \in DOMAIN nodes :
         /\ nodes[h].parentNode = nodesB[h].parentNode
         /\ nodes[h].arm = nodesB[h].arm
         /\ nodes[h].rewards = nodesB[h].rewards

\* The updates that name the same childHash give it the same parentHash and action.
HashConsistent(updates) ==
    \A i, j \in 1..Len(updates) :
        updates[i].newNodeHash = updates[j].newNodeHash =>
            /\ updates[i].parentHash = updates[j].parentHash
            /\ updates[i].action = updates[j].action

\* C15 as stated: two orderings of the same well-formed updates, each creating
\* every node after its parent, in any split into buffers, build the same tree.
C15_OrderInsensitive == BothIntegratedAll => SameTree

\* C15, amended: the same, for updates that give every childHash one parentHash
\* and one action.
C15_OrderInsensitiveForOneParent ==
    (BothIntegratedAll /\ HashConsistent(pool)) => SameTree

\* Three such updates that build a chain of two nodes, integrated by the second
\* tree in another order, the last one first.
C15_Witness ==
    /\ BothIntegratedAll
    /\ HashConsistent(pool)
    /\ Len(pool) = 3
    /\ permB[1] = 3
    /\ \E h \in Keys : nodes[h].parentNode \notin {ROOT, NoneVal}
    /\ SameTree

\* C18: when update has returned no worker's ready signal is set, and what is
\* left in a buffer was appended after the worker last raised its signal.
C18_NoPublishedWorkLeft ==
    pc = "done" =>
        \A w \in Workers : ~ready[w] /\ (~pending[w] => buffer[w] = <<>>)

\* Every worker has set its finished signal.
AllFinished == \A w \in Workers : finished[w]

\* C19: once every worker has set its finished signal update returns, unless
\* integrate_buffer raised on an update without a parent; and while some worker
\* never sets its finished signal update never returns.
C19_ReturnsIffAllFinish ==
    /\ AllFinished ~> (pc = "done" \/ pc = "fault")
    /\ \A w \in Workers : ([](~finished[w])) => [](pc # "done")

\* update has returned after the workers appended several updates, all of
\* which were integrated.
C19_Witness ==
    /\ pc = "done"
    /\ AllFinished
    /\ nApp >= 2
    /\ \A n \in 1..nApp : integ[n] = 1

\* C20: a call of integrate_buffer that raises on an update whose parentHash is
\* unknown (the only fault of well-formed actions) leaves the node set, the
\* parent links and every histogram as they were before the call.
C20_OrphanLeavesTreeUnchanged ==
    [][(ret'.op = "integrate_buffer" /\ ret'.fault # "none")
         => (nodes' = nodes /\ order' = order)]_vars

====
